---- MODULE Spec2Model ----
(***************************************************************************)
(* Model of the mean-reversion backtest pipeline of                        *)
(* src/python/monitor_sharpe.py and src/python/decision_layer.py:          *)
(*   zscore_position -> backtest_returns -> rolling_sharpe                 *)
(*   -> compute_decision.                                                  *)
(*                                                                         *)
(* Numbers.  Prices are positive integers.  Every float of the program is  *)
(* modelled by the exact real it stands for:                               *)
(*   - a return is a rational [n, d] with d > 0, kept in lowest terms;     *)
(*   - a quotient by a standard deviation (the z-score, mu / sig) is a     *)
(*     record q: [k |-> "nan"], [k |-> "inf", n |-> sign] or               *)
(*     [k |-> "fin", n |-> N, v |-> V] standing for N / sqrt(V), V > 0,    *)
(*     following IEEE division (0/0 = nan, x/0 = +-inf);                   *)
(*   - thresholds z_entry, z_exit are counted in units of 1/ZScale;        *)
(*   - Sharpe values of a snapshot are counted in halves, fractions        *)
(*     frac_warn, frac_stop in units of 1/FracDen.                         *)
(***************************************************************************)
EXTENDS Integers, Sequences, FiniteSets, TLC

\* ---- bounds of the model ----
MaxLen == 5        \* longest price / return series
MaxPrice == 2      \* prices are drawn from 1..MaxPrice
MaxWin == 3        \* largest rolling window
MaxZ == 2          \* largest threshold, in units of 1/ZScale
ZScale == 2        \* thresholds are multiples of 1/ZScale
MaxCostK == 1      \* cost_bps is drawn from {0, 2500, ..., 2500 * MaxCostK}
RerunLen == 3      \* longest series of the re-run specification
MaxRows == 2       \* most rows (signal windows) of a snapshot matrix
FracDen == 2       \* frac_warn, frac_stop are multiples of 1/FracDen

\* ---- program constants ----
BpsScale == 10000        \* cost = (cost_bps / 10000.0) * turnover
annualization == 252     \* rolling_sharpe(..., annualization=252)
NCols == 3               \* sharpe_windows = [10, 20, 60]
warn_sharpe == 0         \* warn_sharpe = 0.0, in halves
stop_sharpe == -1        \* stop_sharpe = -0.5, in halves

VARIABLES
  pc,        \* position in the pipeline / decision layer
  price,     \* the price series (load_close's result)
  window, z_entry, z_exit,   \* arguments of zscore_position
  pos,       \* the position series
  cost_bps,  \* argument of backtest_returns
  ret,       \* the return series
  sh_window, \* argument of rolling_sharpe
  sharpe,    \* the rolling Sharpe series
  rerun,     \* what the last re-run changed
  snap,      \* latest_sharpe_snapshot
  frac_warn, frac_stop,      \* arguments of compute_decision
  decision   \* compute_decision's result

vars == <<pc, price, window, z_entry, z_exit, pos, cost_bps, ret, sh_window,
          sharpe, rerun, snap, frac_warn, frac_stop, decision>>

\* ---- arithmetic ----
Abs(x) == IF x < 0 THEN -x ELSE x

Sgn(x) == IF x < 0 THEN -1 ELSE IF x > 0 THEN 1 ELSE 0

RECURSIVE GCD(_, _)
GCD(a, b) == IF b = 0 THEN a ELSE GCD(b, a % b)

LCM(a, b) == (a * b) \div GCD(a, b)

\* the rational n/d (d # 0) in lowest terms with a positive denominator
Rat(n, d) ==
  LET g == GCD(Abs(n), Abs(d))
      s == IF d < 0 THEN -1 ELSE 1
  IN  [n |-> (s * n) \div g, d |-> (s * d) \div g]

RSub(a, b) == Rat(a.n * b.d - b.n * a.d, a.d * b.d)

RMul(a, b) == Rat(a.n * b.n, a.d * b.d)

RLe(a, b) == a.n * b.d <= b.n * a.d

RLt(a, b) == a.n * b.d < b.n * a.d

NaN == [k |-> "nan"]

\* Quot with a division by zero guarded to 0 instead of nan / inf
QuotGuarded(N, V) ==
  IF V = 0 THEN [k |-> "fin", n |-> 0, v |-> 1] ELSE [k |-> "fin", n |-> N, v |-> V]

\* float division N / sqrt(V) with V >= 0
Quot(N, V) ==
  IF V = 0
  THEN IF N = 0 THEN NaN ELSE [k |-> "inf", n |-> Sgn(N)]
  ELSE [k |-> "fin", n |-> N, v |-> V]

\* abs(q) < t / ZScale
QAbsLt(q, t) ==
  /\ q.k = "fin"
  /\ t > 0
  /\ q.n * q.n * ZScale * ZScale < t * t * q.v

\* q > t / ZScale
QGt(q, t) ==
  CASE q.k = "nan" -> FALSE
    [] q.k = "inf" -> q.n > 0
    [] OTHER ->
       IF t >= 0
       THEN q.n > 0 /\ q.n * q.n * ZScale * ZScale > t * t * q.v
       ELSE q.n >= 0 \/ q.n * q.n * ZScale * ZScale < t * t * q.v

\* q < t / ZScale
QLt(q, t) ==
  CASE q.k = "nan" -> FALSE
    [] q.k = "inf" -> q.n < 0
    [] OTHER ->
       IF t <= 0
       THEN q.n < 0 /\ q.n * q.n * ZScale * ZScale > t * t * q.v
       ELSE q.n <= 0 \/ q.n * q.n * ZScale * ZScale < t * t * q.v

\* ---- zscore_position ----
RECURSIVE WinSum(_, _, _)
\* sum of the w entries of s ending at index i
WinSum(s, w, i) == IF w = 0 THEN 0 ELSE s[i] + WinSum(s, w - 1, i - 1)

RECURSIVE WinSumSq(_, _, _)
WinSumSq(s, w, i) == IF w = 0 THEN 0 ELSE s[i] * s[i] + WinSumSq(s, w - 1, i - 1)

\* w * w * (population variance of the window ending at i)
WinVar(s, w, i) == w * WinSumSq(s, w, i) - WinSum(s, w, i) * WinSum(s, w, i)

\* z = (s - mu) / sig at index i: undefined until the window is full (a window
\* of 0 observations is never full), else (w*s[i] - sum) / sqrt(w*sumsq - sum^2)
ZAt(s, w, i) ==
  IF w < 1 \/ i < w THEN NaN
  ELSE Quot(w * s[i] - WinSum(s, w, i), WinVar(s, w, i))

\* StepCurrent without the `elif current == 0.0` guard on entries
StepCurrentAlwaysEnter(zi, current, ze, zx) ==
  IF zi.k = "nan" THEN 0
  ELSE IF QAbsLt(zi, zx) THEN 0
  ELSE IF QGt(zi, ze) THEN -1
  ELSE IF QLt(zi, -ze) THEN 1
  ELSE current

\* one iteration of the loop: the new value of `current`
StepCurrent(zi, current, ze, zx) ==
  IF zi.k = "nan" THEN 0
  ELSE IF QAbsLt(zi, zx) THEN 0
  ELSE IF current = 0
       THEN IF QGt(zi, ze) THEN -1
            ELSE IF QLt(zi, -ze) THEN 1
            ELSE current
       ELSE current

RECURSIVE PosFrom(_, _, _, _, _, _)
\* the loop from iteration i on: acc is pos[1..i-1], `current` its last entry
\* (0.0 before the first iteration)
PosFrom(s, w, ze, zx, i, acc) ==
  IF i > Len(s) THEN acc
  ELSE LET current == IF i = 1 THEN 0 ELSE acc[i - 1]
       IN  PosFrom(s, w, ze, zx, i + 1,
                   Append(acc, StepCurrent(ZAt(s, w, i), current, ze, zx)))

zscore_position(s, w, ze, zx) == PosFrom(s, w, ze, zx, 1, <<>>)

\* ---- backtest_returns ----
\* r = price.pct_change().fillna(0.0)
PctChange(p, i) == IF i = 1 THEN Rat(0, 1) ELSE Rat(p[i] - p[i - 1], p[i - 1])

\* pos.shift(-1).fillna(0.0): the shift taken in the wrong direction
PosLead(position, i) == IF i = Len(position) THEN 0 ELSE position[i + 1]

\* pos.shift(1).fillna(0.0)
PosLag(position, i) == IF i = 1 THEN 0 ELSE position[i - 1]

\* (pos - pos.shift(1)).abs().fillna(0.0)
Turnover(position, i) == IF i = 1 THEN 0 ELSE Abs(position[i] - position[i - 1])

\* gross + cost: the cost taken with the wrong sign
NetReturnCostAdded(p, position, c, i) ==
  RSub(RMul(Rat(PosLag(position, i), 1), PctChange(p, i)),
       RMul(Rat(-c, BpsScale), Rat(Turnover(position, i), 1)))

\* gross - cost at index i
NetReturn(p, position, c, i) ==
  RSub(RMul(Rat(PosLag(position, i), 1), PctChange(p, i)),
       RMul(Rat(c, BpsScale), Rat(Turnover(position, i), 1)))

backtest_returns(p, position, c) ==
  [i \in 1..Len(p) |-> NetReturn(p, position, c, i)]

\* ---- rolling_sharpe ----
RECURSIVE WinLCM(_, _, _)
\* a common denominator of the w returns ending at index i
WinLCM(r, w, i) == IF w = 0 THEN 1 ELSE LCM(r[i].d, WinLCM(r, w - 1, i - 1))

\* the w returns ending at i over their common denominator, as integers
Scaled(r, w, i) ==
  LET D == WinLCM(r, w, i)
  IN  [j \in 1..Len(r) |-> IF j > i - w /\ j <= i THEN r[j].n * (D \div r[j].d) ELSE 0]

\* sqrt(annualization) * q
Annualize(q) ==
  IF q.k = "fin" THEN [k |-> "fin", n |-> q.n, v |-> q.v, a |-> annualization] ELSE q

\* rolling_sharpe without the final replace
ReplaceInfDropped(q) == q

\* sr.replace([np.inf, -np.inf], np.nan)
ReplaceInf(q) == IF q.k = "inf" THEN NaN ELSE q

\* mu / sig of the window ending at i: rolling(window, min_periods=window)
SharpeAt(r, w, i) ==
  IF i < w THEN NaN
  ELSE LET x == Scaled(r, w, i)
       IN  ReplaceInf(Annualize(Quot(WinSum(x, w, i), WinVar(x, w, i))))

rolling_sharpe(r, w) == [i \in 1..Len(r) |-> SharpeAt(r, w, i)]

\* ---- compute_decision ----
Fin(x) == [k |-> "fin", x |-> x]

RECURSIVE Insert(_, _)
\* x inserted into the ascending sequence s
Insert(s, x) ==
  IF s = <<>> THEN <<x>>
  ELSE IF x <= Head(s) THEN <<x>> \o s
  ELSE <<Head(s)>> \o Insert(Tail(s), x)

RECURSIVE SortedDefined(_)
\* the defined entries of a row, ascending (skipna=True)
SortedDefined(row) ==
  IF row = <<>> THEN <<>>
  ELSE IF Head(row).k = "fin" THEN Insert(SortedDefined(Tail(row)), Head(row).x)
  ELSE SortedDefined(Tail(row))

\* the median of a row's defined entries, a rational in halves; nan if none
Median(row) ==
  LET v == SortedDefined(row)
      m == Len(v)
  IN  IF m = 0 THEN NaN
      ELSE IF m % 2 = 1 THEN [k |-> "fin", v |-> Rat(v[(m + 1) \div 2], 1)]
      ELSE [k |-> "fin", v |-> Rat(v[m \div 2] + v[m \div 2 + 1], 2)]

\* scores = snap.median(axis=1, skipna=True)
Scores(m) == [r \in 1..Len(m) |-> Median(m[r])]

\* scores < level, elementwise: False where the score is nan
Below(score, level) == score.k = "fin" /\ RLt(score.v, Rat(level, 1))

\* .mean() of a boolean series: nan when the series is empty
MeanOf(count, n) == IF n = 0 THEN NaN ELSE [k |-> "fin", v |-> Rat(count, n)]

\* BadFrac with the mean taken over the rows with a defined score only
BadFracSkipNa(scores, level) ==
  MeanOf(Cardinality({r \in 1..Len(scores) : Below(scores[r], level)}),
         Cardinality({r \in 1..Len(scores) : scores[r].k = "fin"}))

\* BadFrac with an undefined score counted as below the level
BadFracNaNFails(scores, level) ==
  MeanOf(Cardinality({r \in 1..Len(scores) :
                        scores[r].k = "nan" \/ Below(scores[r], level)}),
         Len(scores))

\* (scores < level).mean()
BadFrac(scores, level) ==
  MeanOf(Cardinality({r \in 1..Len(scores) : Below(scores[r], level)}),
         Len(scores))

\* bad >= frac / FracDen: False when bad is nan
FracGe(bad, frac) == bad.k = "fin" /\ RLe(Rat(frac, FracDen), bad.v)

\* Decide with the REDUCE test made before the STOP test
DecideWarnFirst(bad_warn, bad_stop, fw, fs) ==
  IF FracGe(bad_warn, fw)
  THEN [risk_mode |-> "REDUCE", position_multiplier |-> Rat(1, 2)]
  ELSE IF FracGe(bad_stop, fs)
  THEN [risk_mode |-> "STOP", position_multiplier |-> Rat(0, 1)]
  ELSE [risk_mode |-> "NORMAL", position_multiplier |-> Rat(1, 1)]

\* Decide with the STOP test comparing the wrong way round
DecideStopReversed(bad_warn, bad_stop, fw, fs) ==
  IF bad_stop.k = "fin" /\ RLe(bad_stop.v, Rat(fs, FracDen))
  THEN [risk_mode |-> "STOP", position_multiplier |-> Rat(0, 1)]
  ELSE IF FracGe(bad_warn, fw)
  THEN [risk_mode |-> "REDUCE", position_multiplier |-> Rat(1, 2)]
  ELSE [risk_mode |-> "NORMAL", position_multiplier |-> Rat(1, 1)]

\* decide risk mode
Decide(bad_warn, bad_stop, fw, fs) ==
  IF FracGe(bad_stop, fs)
  THEN [risk_mode |-> "STOP", position_multiplier |-> Rat(0, 1)]
  ELSE IF FracGe(bad_warn, fw)
  THEN [risk_mode |-> "REDUCE", position_multiplier |-> Rat(1, 2)]
  ELSE [risk_mode |-> "NORMAL", position_multiplier |-> Rat(1, 1)]

\* the returned dict, without trade_window and trade_score (the score of one
\* row, which the risk mode does not read)
compute_decision(m, fw, fs) ==
  LET scores == Scores(m)
      bad_warn == BadFrac(scores, warn_sharpe)
      bad_stop == BadFrac(scores, stop_sharpe)
      d == Decide(bad_warn, bad_stop, fw, fs)
  IN  [risk_mode |-> d.risk_mode,
       position_multiplier |-> d.position_multiplier,
       bad_warn_frac |-> bad_warn,
       bad_stop_frac |-> bad_stop,
       scores |-> scores]

\* ---- inputs ----
SeqsUpTo(S, n) == UNION {[1..m -> S] : m \in 1..n}

Prices == 1..MaxPrice
PriceSeries == SeqsUpTo(Prices, MaxLen)
Windows == 0..MaxWin
ZEntries == 1..MaxZ
ZExits == 0..MaxZ
Costs == {2500 * k : k \in 0..MaxCostK}
SharpeWindows == 1..MaxWin

ReturnVals == {Rat(n, 2) : n \in -2..2}
ReturnSeries == SeqsUpTo(ReturnVals, MaxLen)

RerunSeries == SeqsUpTo(Prices, RerunLen)

\* latest Sharpe values, in halves: -1.0 and 0.0, or undefined
SharpeEntries == {NaN, Fin(-2), Fin(0)}
SnapRows == [1..NCols -> SharpeEntries]
Snapshots == UNION {[1..r -> SnapRows] : r \in 0..MaxRows}
Fracs == 0..FracDen

NoRerun == [op |-> "none", t |-> 0, prev_cost |-> 0, moved |-> FALSE]
NoDecision == [risk_mode |-> "none"]

\* ---- the pipeline: main's loop body for one signal window ----
Init ==
  /\ pc = "price"
  /\ price \in PriceSeries
  /\ window = 1 /\ z_entry = 1 /\ z_exit = 0
  /\ pos = <<>>
  /\ cost_bps = 0
  /\ ret = <<>>
  /\ sh_window = 1
  /\ sharpe = <<>>
  /\ rerun = NoRerun
  /\ snap = <<>> /\ frac_warn = 0 /\ frac_stop = 0 /\ decision = NoDecision

ZscorePosition ==
  /\ pc = "price"
  /\ \E w \in Windows, ze \in ZEntries, zx \in ZExits :
       /\ window' = w /\ z_entry' = ze /\ z_exit' = zx
       /\ pos' = zscore_position(price, w, ze, zx)
  /\ pc' = "pos"
  /\ UNCHANGED <<price, cost_bps, ret, sh_window, sharpe, rerun, snap,
                 frac_warn, frac_stop, decision>>

BacktestReturns ==
  /\ pc = "pos"
  /\ \E c \in Costs :
       /\ cost_bps' = c
       /\ ret' = backtest_returns(price, pos, c)
  /\ pc' = "ret"
  /\ UNCHANGED <<price, window, z_entry, z_exit, pos, sh_window, sharpe, rerun,
                 snap, frac_warn, frac_stop, decision>>

RollingSharpe ==
  /\ pc = "ret"
  /\ \E w \in SharpeWindows :
       /\ sh_window' = w
       /\ sharpe' = rolling_sharpe(ret, w)
  /\ pc' = "sharpe"
  /\ UNCHANGED <<price, window, z_entry, z_exit, pos, cost_bps, ret, rerun,
                 snap, frac_warn, frac_stop, decision>>

Next == ZscorePosition \/ BacktestReturns \/ RollingSharpe

Spec == Init /\ [][Next]_vars

\* ---- rolling_sharpe on its own: any return series ----
InitSharpe ==
  /\ pc = "ret"
  /\ ret \in ReturnSeries
  /\ price = <<>> /\ pos = <<>>
  /\ window = 1 /\ z_entry = 1 /\ z_exit = 0
  /\ cost_bps = 0
  /\ sh_window = 1
  /\ sharpe = <<>>
  /\ rerun = NoRerun
  /\ snap = <<>> /\ frac_warn = 0 /\ frac_stop = 0 /\ decision = NoDecision

SpecSharpe == InitSharpe /\ [][RollingSharpe]_vars

\* ---- the pipeline run again on changed inputs ----
\* the state after main's loop body has produced pos and ret
InitRerun ==
  /\ pc = "ret"
  /\ price \in RerunSeries
  /\ window \in Windows /\ z_entry \in ZEntries /\ z_exit \in ZExits
  /\ cost_bps \in Costs
  /\ pos = zscore_position(price, window, z_entry, z_exit)
  /\ ret = backtest_returns(price, pos, cost_bps)
  /\ sh_window = 1
  /\ sharpe = <<>>
  /\ rerun = NoRerun
  /\ snap = <<>> /\ frac_warn = 0 /\ frac_stop = 0 /\ decision = NoDecision

\* the first index at which p and q (of one length, not equal) differ
FirstDiff(p, q) ==
  CHOOSE t \in 1..Len(p) : p[t] # q[t] /\ \A j \in 1..(t - 1) : p[j] = q[j]

\* zscore_position and backtest_returns run on another price series over the
\* same timestamps, with the same window, thresholds and cost (one second
\* run per behaviour: the first runs are all of InitRerun)
Reprice ==
  /\ pc = "ret"
  /\ rerun.op = "none"
  /\ \E p2 \in [1..Len(price) -> Prices] :
       /\ p2 # price
       /\ price' = p2
       /\ pos' = zscore_position(p2, window, z_entry, z_exit)
       /\ ret' = backtest_returns(p2, pos', cost_bps)
       /\ rerun' = [op |-> "reprice", t |-> FirstDiff(price, p2),
                    prev_cost |-> cost_bps,
                    moved |-> pos' # pos \/ ret' # ret]
  /\ UNCHANGED <<pc, window, z_entry, z_exit, cost_bps, sh_window, sharpe,
                 snap, frac_warn, frac_stop, decision>>

\* backtest_returns run on the same price and position with another cost_bps
Recost ==
  /\ pc = "ret"
  /\ rerun.op = "none"
  /\ \E c2 \in Costs \ {cost_bps} :
       /\ cost_bps' = c2
       /\ ret' = backtest_returns(price, pos, c2)
       /\ rerun' = [op |-> "recost", t |-> 0, prev_cost |-> cost_bps,
                    moved |-> ret' # ret]
  /\ UNCHANGED <<pc, price, window, z_entry, z_exit, pos, sh_window, sharpe,
                 snap, frac_warn, frac_stop, decision>>

NextRerun == Reprice \/ Recost

SpecRerun == InitRerun /\ [][NextRerun]_vars

\* ---- the decision layer on any snapshot matrix ----
InitDecision ==
  /\ pc = "snap"
  /\ snap \in Snapshots
  /\ frac_warn = 0 /\ frac_stop = 0
  /\ decision = NoDecision
  /\ price = <<>> /\ pos = <<>> /\ ret = <<>> /\ sharpe = <<>>
  /\ window = 1 /\ z_entry = 1 /\ z_exit = 0
  /\ cost_bps = 0
  /\ sh_window = 1
  /\ rerun = NoRerun

ComputeDecision ==
  /\ pc = "snap"
  /\ \E fw \in Fracs, fs \in Fracs :
       /\ frac_warn' = fw /\ frac_stop' = fs
       /\ decision' = compute_decision(snap, fw, fs)
  /\ pc' = "decided"
  /\ UNCHANGED <<price, window, z_entry, z_exit, pos, cost_bps, ret, sh_window,
                 sharpe, rerun, snap>>

\* compute_decision called again on the same snapshot with frac_warn and/or
\* frac_stop decreased (one second call per behaviour)
Retune ==
  /\ pc = "decided"
  /\ rerun.op = "none"
  /\ \E fw \in 0..frac_warn, fs \in 0..frac_stop :
       /\ <<fw, fs>> # <<frac_warn, frac_stop>>
       /\ frac_warn' = fw /\ frac_stop' = fs
       /\ decision' = compute_decision(snap, fw, fs)
  /\ rerun' = [op |-> "retune", prev_mode |-> decision.risk_mode]
  /\ UNCHANGED <<pc, price, window, z_entry, z_exit, pos, cost_bps, ret,
                 sh_window, sharpe, snap>>

NextDecision == ComputeDecision \/ Retune

SpecDecision == InitDecision /\ [][NextDecision]_vars

\* ==== claims ====

\* C1: when the pipeline is run on two price series with the same window,
\* thresholds and cost, the position and the return agree at every timestamp
\* up to which the two series agree (every timestamp before the first
\* difference t).
C1_NoLookahead ==
  [][(window' = window /\ z_entry' = z_entry /\ z_exit' = z_exit
        /\ cost_bps' = cost_bps)
     => \A i \in 1..Len(price) :
          (\A j \in 1..i : price[j] = price'[j])
            => (pos'[i] = pos[i] /\ ret'[i] = ret[i])]_vars

\* a re-run on a series that first differs at t > 1, changes an output at t
\* or later, and holds a position before t
C1_Witness ==
  /\ rerun.op = "reprice"
  /\ rerun.moved
  /\ \E i \in 1..(rerun.t - 1) : pos[i] # 0 /\ ret[i].n # 0

\* C8: for the same price and position series and cost_bps a < b, the net
\* return under b is <= the one under a at every timestamp, strictly lower
\* where the position changed from the previous timestamp, equal elsewhere;
\* the first return is 0.
C8_CostMonotone ==
  [][(price' = price /\ pos' = pos /\ cost_bps' > cost_bps)
     => /\ ret[1].n = 0 /\ ret'[1].n = 0
        /\ \A i \in 1..Len(price) :
             /\ RLe(ret'[i], ret[i])
             /\ (i > 1 /\ pos[i] # pos[i - 1]) => RLt(ret'[i], ret[i])
             /\ (i = 1 \/ pos[i] = pos[i - 1]) => ret'[i] = ret[i]]_vars

\* the cost was raised on a series with turnover and with a timestamp without
C8_Witness ==
  /\ rerun.op = "recost"
  /\ cost_bps > rerun.prev_cost
  /\ \E i \in 2..Len(pos) : pos[i] # pos[i - 1]
  /\ \E i \in 2..Len(pos) : pos[i] = pos[i - 1] /\ pos[i] # 0


\* z is undefined, or inside the exit band, at index i
ExitAt(i) ==
  LET zi == ZAt(price, window, i)
  IN  zi.k = "nan" \/ QAbsLt(zi, z_exit)

\* C2: the position never goes from +1 to -1 or from -1 to +1 between
\* consecutive timestamps; a non-zero position is kept unchanged at the next
\* timestamp unless z is undefined or |z| < z_exit there, and then it is 0.
C2_NoDirectFlip ==
  \A i \in 2..Len(pos) :
    /\ ~(pos[i - 1] = 1 /\ pos[i] = -1)
    /\ ~(pos[i - 1] = -1 /\ pos[i] = 1)
    /\ pos[i - 1] # 0 => pos[i] = (IF ExitAt(i) THEN 0 ELSE pos[i - 1])

\* a short position is held at a timestamp whose z is a long entry signal
C2_Witness ==
  \E i \in 2..Len(pos) :
    /\ pos[i - 1] = -1
    /\ QLt(ZAt(price, window, i), -z_entry)
    /\ ~ExitAt(i)
    /\ pos[i] = -1

BadConfig == window <= 0 \/ z_exit >= z_entry

\* C5: zscore_position called with a non-positive window or with
\* z_exit >= z_entry is rejected: no position, return or Sharpe series is
\* produced.
C5_BadConfigRejected ==
  (pc # "price" /\ BadConfig) => (pos = <<>> /\ ret = <<>> /\ sharpe = <<>>)

\* the w returns ending at index i are all equal (population std is zero)
WindowConstant(r, w, i) ==
  \A j, l \in (i - w + 1)..i : r[j] = r[l]

\* C7: rolling_sharpe is undefined at the first window-1 timestamps and at
\* every timestamp whose trailing window has zero standard deviation; it is
\* neither zero nor infinite there.
C7_SharpeUndefined ==
  pc = "sharpe" =>
    /\ Len(sharpe) = Len(ret)
    /\ \A i \in 1..Len(ret) :
         (i < sh_window \/ WindowConstant(ret, sh_window, i)) => sharpe[i] = NaN

\* a full window of constant non-zero returns, and a window that is not full
C7_Witness ==
  /\ pc = "sharpe"
  /\ sh_window >= 2
  /\ sharpe[1] = NaN
  /\ \E i \in sh_window..Len(ret) :
       WindowConstant(ret, sh_window, i) /\ ret[i].n # 0 /\ sharpe[i] = NaN
  /\ \E i \in sh_window..Len(ret) : sharpe[i] # NaN

IsConstant(s) == \A i, j \in 1..Len(s) : s[i] = s[j]

\* C9: on a constant price series z is undefined everywhere, the position is
\* 0 everywhere, the return is 0 everywhere and the rolling Sharpe is
\* undefined everywhere.
C9_ConstantPrice ==
  IsConstant(price) =>
    /\ pc \in {"pos", "ret", "sharpe"} =>
         /\ Len(pos) = Len(price)
         /\ \A i \in 1..Len(price) : ZAt(price, window, i) = NaN /\ pos[i] = 0
    /\ pc \in {"ret", "sharpe"} =>
         /\ Len(ret) = Len(price)
         /\ \A i \in 1..Len(price) : ret[i].n = 0
    /\ pc = "sharpe" =>
         /\ Len(sharpe) = Len(price)
         /\ \A i \in 1..Len(price) : sharpe[i] = NaN

\* a constant series at least as long as both windows, run to the end
C9_Witness ==
  /\ pc = "sharpe"
  /\ IsConstant(price)
  /\ window >= 1 /\ Len(price) > window /\ Len(price) > sh_window
  /\ cost_bps > 0

\* the rows of snap whose score is defined / defined and below the level
DefinedRows == {r \in 1..Len(snap) : decision.scores[r] # NaN}
RowsBelow(level) ==
  {r \in DefinedRows : decision.scores[r].v.n < level * decision.scores[r].v.d}

\* the fraction count / n as the decision record holds it
AsFrac(count, n) == IF n = 0 THEN NaN ELSE [k |-> "fin", v |-> Rat(count, n)]

\* C3 as stated: each fraction is (defined scores below the level) over
\* (defined scores), rows with an undefined score left out of both (stated
\* for a matrix with at least one defined score).
C3_FracOverDefinedRows ==
  (pc = "decided" /\ DefinedRows # {}) =>
    /\ decision.bad_warn_frac =
         AsFrac(Cardinality(RowsBelow(warn_sharpe)), Cardinality(DefinedRows))
    /\ decision.bad_stop_frac =
         AsFrac(Cardinality(RowsBelow(stop_sharpe)), Cardinality(DefinedRows))

\* C3 amended: a row's score is undefined exactly when all its entries are;
\* each fraction is (defined scores below the level) over (all rows): a row
\* with an undefined score is left out of the numerator and counted in the
\* denominator; the fraction is undefined when the matrix has no rows.
C3_FracOverAllRows ==
  pc = "decided" =>
    /\ \A r \in 1..Len(snap) :
         decision.scores[r] = NaN <=> \A c \in 1..NCols : snap[r][c] = NaN
    /\ decision.bad_warn_frac =
         AsFrac(Cardinality(RowsBelow(warn_sharpe)), Len(snap))
    /\ decision.bad_stop_frac =
         AsFrac(Cardinality(RowsBelow(stop_sharpe)), Len(snap))

\* a matrix with a row of undefined score beside a row below the stop level
C3_Witness ==
  /\ pc = "decided"
  /\ Cardinality(DefinedRows) < Len(snap)
  /\ RowsBelow(stop_sharpe) # {}

\* decision.<frac> >= frac / FracDen
AtLeast(bad, frac) == bad # NaN /\ bad.v.n * FracDen >= frac * bad.v.d

\* C4: when frac_below_stop >= stop_frac and frac_below_warn >= warn_frac both
\* hold the decision is STOP with multiplier 0.0; and always STOP goes with
\* 0.0, REDUCE with 0.5, NORMAL with 1.0.
C4_StopDominates ==
  pc = "decided" =>
    /\ (AtLeast(decision.bad_stop_frac, frac_stop)
          /\ AtLeast(decision.bad_warn_frac, frac_warn))
         => decision.risk_mode = "STOP"
    /\ \/ decision.risk_mode = "STOP" /\ decision.position_multiplier = Rat(0, 1)
       \/ decision.risk_mode = "REDUCE" /\ decision.position_multiplier = Rat(1, 2)
       \/ decision.risk_mode = "NORMAL" /\ decision.position_multiplier = Rat(1, 1)

\* both tests hold, with positive fractions, and not every row is below
C4_Witness ==
  /\ pc = "decided"
  /\ frac_stop > 0 /\ frac_warn > 0
  /\ AtLeast(decision.bad_stop_frac, frac_stop)
  /\ AtLeast(decision.bad_warn_frac, frac_warn)
  /\ decision.bad_stop_frac # decision.bad_warn_frac
  /\ decision.risk_mode = "STOP"

Rank(mode) == CASE mode = "NORMAL" -> 0 [] mode = "REDUCE" -> 1 [] mode = "STOP" -> 2

\* C6: on the same snapshot, with frac_warn and frac_stop each decreased or
\* kept, the risk mode stays or moves along NORMAL -> REDUCE -> STOP.
C6_Monotone ==
  [][(pc = "decided" /\ snap' = snap /\ frac_warn' <= frac_warn
        /\ frac_stop' <= frac_stop)
     => Rank(decision'.risk_mode) >= Rank(decision.risk_mode)]_vars

\* a decrease moved the mode from NORMAL to STOP
C6_Witness ==
  /\ rerun.op = "retune"
  /\ rerun.prev_mode = "NORMAL"
  /\ decision.risk_mode = "STOP"

\* C10: when no row has a defined score (or there is no row) and frac_warn > 0
\* and frac_stop > 0, the decision is NORMAL with multiplier 1.0.
C10_FailOpen ==
  (pc = "decided" /\ frac_warn > 0 /\ frac_stop > 0
     /\ \A r \in 1..Len(snap) : \A c \in 1..NCols : snap[r][c] = NaN)
  => (decision.risk_mode = "NORMAL" /\ decision.position_multiplier = Rat(1, 1))

\* rows exist and all their entries are undefined
C10_Witness ==
  /\ pc = "decided"
  /\ frac_warn > 0 /\ frac_stop > 0
  /\ Len(snap) >= 2
  /\ \A r \in 1..Len(snap) : \A c \in 1..NCols : snap[r][c] = NaN
  /\ decision.risk_mode = "NORMAL"

====
